---- MODULE Spec2Model ----
(***************************************************************************)
(* A model of egui-sdl2-renderer's Painter (src/src/lib.rs): the texture   *)
(* cache (a HashMap from TextureId to Texture), update_or_create_texture,  *)
(* free_texture and the three loops of paint_and_update_textures.          *)
(*                                                                         *)
(* One paint call is a run of steps: BeginPaint takes the arguments, then  *)
(* one step per loop iteration (a set entry, a clipped primitive, a free   *)
(* entry), then Return.  The renderer (SDL2) is the environment: each of   *)
(* its fallible calls may fail, chosen by the step.                        *)
(***************************************************************************)
EXTENDS Integers, Sequences, FiniteSets, TLC

VARIABLES
    textures,    \* Painter.textures: a function whose domain is the cached ids
    canvasClip,  \* the clip (scissor) rectangle of the canvas
    pc,          \* "idle" | "running" | "returned": where the paint call is
    phase,       \* "set" | "prims" | "free" | "end": the loop control is in
    i,           \* the 1-based position of the running loop in its list
    frame,       \* the arguments of the call: [set, prims, free]
    result,      \* the call's return value: [kind, id]
    log,         \* the renderer calls, callback invocations and removals issued
    pre,         \* textures as they were when the call began
    blend        \* a draw's blending of one pixel: [src, dst, out], or NoBlend

vars == <<textures, canvasClip, pc, phase, i, frame, result, log, pre, blend>>

----------------------------------------------------------------------------
(* Bounds and input sets *)

\* The largest number of entries (set entries + primitives + free entries)
\* of one frame under Spec.
MaxEntries == 3

\* The largest texture width and height of the texture-level frames (SpecTex).
MaxW == 2
MaxH == 1

\* The channel values of a pixel are the fractions 0/MaxChan .. MaxChan/MaxChan.
MaxChan == 3

TextureIds == {1, 2}

Colours == {"red", "blue"}

\* The content of a texel no upload has written yet.
Unwritten == "unwritten"

\* egui clip rectangles, in half points (f32 values k/2): (0.5, 0)-(2.5, 2)
\* and (-0.5, 1)-(1, 2).
ClipRects ==
    { [min |-> [x |-> 1, y |-> 0], max |-> [x |-> 5, y |-> 4]],
      [min |-> [x |-> -1, y |-> 2], max |-> [x |-> 2, y |-> 4]] }

\* SDL's clip rectangle of a canvas whose clipping is disabled: empty.
NoClipRect == [x |-> 0, y |-> 0, w |-> 0, h |-> 0]

----------------------------------------------------------------------------
(* Values *)

\* egui::ColorImage: width, height and row-major pixels.
UniformImage(w, h, c) == [w |-> w, h |-> h, pixels |-> [n \in 1..(w * h) |-> c]]

\* egui::epaint::ImageDelta: pos is <<>> (None) or <<x, y>> (Some([x, y])).
ImageDelta(image, pos) == [image |-> image, pos |-> pos]

\* SDL_BLENDMODE_BLEND, the preset for a straight-alpha source.
blend_mode_preset ==
    [ srcColorFactor |-> "SRC_ALPHA",
      dstColorFactor |-> "ONE_MINUS_SRC_ALPHA",
      colorOperation |-> "ADD",
      srcAlphaFactor |-> "ONE",
      dstAlphaFactor |-> "ONE_MINUS_SRC_ALPHA",
      alphaOperation |-> "ADD" ]

\* The custom blend mode composed at the top of update_or_create_texture.
blend_mode ==
    [ srcColorFactor |-> "ONE",
      dstColorFactor |-> "ONE_MINUS_SRC_ALPHA",
      colorOperation |-> "ADD",
      srcAlphaFactor |-> "ONE_MINUS_DST_ALPHA",
      dstAlphaFactor |-> "ONE",
      alphaOperation |-> "ADD" ]

\* A pixel: one colour channel c and the alpha channel a, as numerators
\* over MaxChan.
Pixels == [c : 0..MaxChan, a : 0..MaxChan]

NoBlend == [src |-> <<>>, dst |-> <<>>, out |-> <<>>]

\* PainterError, and Ok(()) and "no value yet"; id is 0 when the kind has none.
Pending == [kind |-> "Pending", id |-> 0]
Ok == [kind |-> "Ok", id |-> 0]
Err(kind, id) == [kind |-> kind, id |-> id]

\* egui::ClippedPrimitive with Primitive::Mesh.
Mesh(id, clip) ==
    [kind |-> "mesh", texture_id |-> id, payload |-> "none", clip_rect |-> clip]

\* egui::ClippedPrimitive with Primitive::Callback; payload is the type of the
\* type-erased callback: "CallbackFn" or a type of another backend.
Callback(payload, clip) ==
    [kind |-> "callback", texture_id |-> 0, payload |-> payload, clip_rect |-> clip]

Primitives ==
    {Mesh(id, c) : id \in TextureIds, c \in ClipRects}
        \cup {Callback(p, c) : p \in {"CallbackFn", "Other"}, c \in ClipRects}

SeqsOfLen(S, n) == IF n = 0 THEN {<<>>} ELSE [1..n -> S]

\* The set entries of the frames of Spec: a 1 x 1 image at no offset.
SetEntries ==
    {[id |-> id, delta |-> ImageDelta(UniformImage(1, 1, "red"), <<>>)] : id \in TextureIds}

FramesOfShape(a, b, c) ==
    { [set |-> s, prims |-> p, free |-> f] :
        s \in SeqsOfLen(SetEntries, a),
        p \in SeqsOfLen(Primitives, b),
        f \in SeqsOfLen(TextureIds, c) }

\* The arguments of a paint call: textures_delta.set, clipped_primitives and
\* textures_delta.free, of at most MaxEntries entries together.
Frames ==
    UNION { FramesOfShape(s[1], s[2], s[3]) :
              s \in { t \in (0..MaxEntries) \X (0..MaxEntries) \X (0..MaxEntries) :
                        t[1] + t[2] + t[3] <= MaxEntries } }

NoFrame == [set |-> <<>>, prims |-> <<>>, free |-> <<>>]

\* The texture-level frames (SpecTex): no primitives, at most one set entry
\* for texture 1 with an image of any size up to MaxW x MaxH at any offset
\* inside that size, and at most one free entry.
TexOffsets == {<<>>} \cup ((0..(MaxW - 1)) \X (0..(MaxH - 1)))

TexSetEntries ==
    { [id |-> 1, delta |-> ImageDelta(UniformImage(w, h, c), pos)] :
        w \in 1..MaxW, h \in 1..MaxH, c \in Colours, pos \in TexOffsets }

TexFrames ==
    { [set |-> s, prims |-> <<>>, free |-> f] :
        s \in SeqsOfLen(TexSetEntries, 0) \cup SeqsOfLen(TexSetEntries, 1),
        f \in SeqsOfLen({1}, 0) \cup SeqsOfLen({1}, 1) }

----------------------------------------------------------------------------
(* The renderer *)

\* TextureCreator::create_texture hands out a texture object; a destroyed
\* texture's handle may be handed out again.
NewHandle(t) ==
    LET used == {t[id].obj : id \in DOMAIN t}
    IN  CHOOSE h \in 1..(Cardinality(DOMAIN t) + 1) :
            h \notin used /\ \A g \in 1..(h - 1) : g \in used

\* A texture as create_texture returns it: width x height, nothing uploaded.
NewTexture(t, width, height) ==
    [ obj |-> NewHandle(t), w |-> width, h |-> height, blend_mode |-> blend_mode,
      px |-> [c \in (0..(width - 1)) \X (0..(height - 1)) |-> Unwritten] ]

\* Texture::update writing the rows at the texture's origin whatever the
\* rectangle's position.
TextureUpdateAtOrigin(tex, rect, data, pitch) ==
    [ tex EXCEPT !.px =
        [ c \in DOMAIN tex.px |->
            IF c[1] < rect.w /\ c[2] < rect.h
            THEN data[c[2] * pitch + c[1] + 1]
            ELSE tex.px[c] ] ]

\* Texture::update(rect, data, pitch): SDL_UpdateTexture copies the rows of
\* data, pitch texels apart, into the part of rect that lies in the texture.
TextureUpdate(tex, rect, data, pitch) ==
    [ tex EXCEPT !.px =
        [ c \in DOMAIN tex.px |->
            IF /\ c[1] >= rect.x /\ c[1] < rect.x + rect.w
               /\ c[2] >= rect.y /\ c[2] < rect.y + rect.h
            THEN data[(c[2] - rect.y) * pitch + (c[1] - rect.x) + 1]
            ELSE tex.px[c] ] ]

\* `v as i32` of the f32 v2/2: towards zero.
AsI32(v2) == IF v2 >= 0 THEN v2 \div 2 ELSE -((-v2) \div 2)

\* `v as u32` of the f32 v2/2: towards zero, negative values to 0.
AsU32(v2) == IF v2 >= 0 THEN v2 \div 2 ELSE 0

\* Rect::from((min.x as i32, min.y as i32, size.x as u32, size.y as u32)).
ScissorRect(clip_rect) ==
    [ x |-> AsI32(clip_rect.min.x), y |-> AsI32(clip_rect.min.y),
      w |-> AsU32(clip_rect.max.x - clip_rect.min.x),
      h |-> AsU32(clip_rect.max.y - clip_rect.min.y) ]

\* An SDL_BlendFactor applied to the pixels src and dst, over MaxChan.
BlendFactor(factor, src, dst) ==
    CASE factor = "ZERO" -> 0
      [] factor = "ONE" -> MaxChan
      [] factor = "SRC_ALPHA" -> src.a
      [] factor = "ONE_MINUS_SRC_ALPHA" -> MaxChan - src.a
      [] factor = "DST_ALPHA" -> dst.a
      [] factor = "ONE_MINUS_DST_ALPHA" -> MaxChan - dst.a

\* An SDL_BlendOperation on the two weighted channels.
BlendOperation(operation, s, d) ==
    CASE operation = "ADD" -> s + d
      [] operation = "SUBTRACT" -> s - d
      [] operation = "REV_SUBTRACT" -> d - s

\* What a draw with the blend mode mode leaves in the target pixel dst for
\* the source pixel src, as SDL_ComposeCustomBlendMode defines it:
\* dstRGB = srcRGB * srcColorFactor OP dstRGB * dstColorFactor and
\* dstA = srcA * srcAlphaFactor OP dstA * dstAlphaFactor.  The channels of the
\* result are numerators over MaxChan * MaxChan.
Blend(mode, src, dst) ==
    [ c |-> BlendOperation(mode.colorOperation,
                           src.c * BlendFactor(mode.srcColorFactor, src, dst),
                           dst.c * BlendFactor(mode.dstColorFactor, src, dst)),
      a |-> BlendOperation(mode.alphaOperation,
                           src.a * BlendFactor(mode.srcAlphaFactor, src, dst),
                           dst.a * BlendFactor(mode.dstAlphaFactor, src, dst)) ]

\* One entry of the log: op is the call (compose, create, blend, update, clip, draw,
\* invoke, remove), at the position in its list of the entry it was issued
\* for, ok whether it succeeded, clip the canvas's clip rectangle in effect.
Event(op, at, ok, clip) == [op |-> op, at |-> at, ok |-> ok, clip |-> clip]

----------------------------------------------------------------------------
(* Painter *)

\* HashMap::insert.
Insert(t, id, tex) == [k \in DOMAIN t \cup {id} |-> IF k = id THEN tex ELSE t[k]]

\* What the renderer may answer to the calls of update_or_create_texture.
Outcomes(t, id) ==
    IF id \in DOMAIN t
    THEN {"ok", "update_fails"}
    ELSE {"ok", "create_fails", "blend_fails", "update_fails"}

\* update_or_create_texture allocating a texture of the delta's size for a
\* cached id as well.
update_or_create_texture_recreates(t, id, delta, outcome) ==
    LET x == IF delta.pos = <<>> THEN 0 ELSE delta.pos[1]
        y == IF delta.pos = <<>> THEN 0 ELSE delta.pos[2]
        width == delta.image.w
        height == delta.image.h
        rect == [x |-> x, y |-> y, w |-> width, h |-> height]
        calls == <<"compose", "create", "blend", "update">>
    IN  IF outcome = "create_fails"
        THEN [textures |-> t, err |-> "CreateTexture", calls |-> <<"compose", "create">>]
        ELSE IF outcome = "blend_fails"
        THEN [textures |-> t, err |-> "BlendModeNotSupported",
              calls |-> <<"compose", "create", "blend">>]
        ELSE
            LET t1 == Insert(t, id, NewTexture(t, width, height))
            IN  IF outcome = "update_fails"
                THEN [textures |-> t1, err |-> "UpdateTexture", calls |-> calls]
                ELSE [ textures |->
                         [t1 EXCEPT ![id] =
                             TextureUpdate(t1[id], rect, delta.image.pixels, delta.image.w)],
                       err |-> "Ok", calls |-> calls ]

\* update_or_create_texture composing the blend mode only where a texture is
\* created.
update_or_create_texture_composes_on_create(t, id, delta, outcome) ==
    LET x == IF delta.pos = <<>> THEN 0 ELSE delta.pos[1]
        y == IF delta.pos = <<>> THEN 0 ELSE delta.pos[2]
        width == delta.image.w
        height == delta.image.h
        vacant == id \notin DOMAIN t
    IN  IF vacant /\ outcome = "create_fails"
        THEN [textures |-> t, err |-> "CreateTexture", calls |-> <<"compose", "create">>]
        ELSE IF vacant /\ outcome = "blend_fails"
        THEN [textures |-> t, err |-> "BlendModeNotSupported",
              calls |-> <<"compose", "create", "blend">>]
        ELSE
            LET t1 == IF vacant THEN Insert(t, id, NewTexture(t, width, height)) ELSE t
                calls == IF vacant
                         THEN <<"compose", "create", "blend", "update">>
                         ELSE <<"update">>
                rect == [x |-> x, y |-> y, w |-> width, h |-> height]
            IN  IF outcome = "update_fails"
                THEN [textures |-> t1, err |-> "UpdateTexture", calls |-> calls]
                ELSE [ textures |->
                         [t1 EXCEPT ![id] =
                             TextureUpdate(t1[id], rect, delta.image.pixels, delta.image.w)],
                       err |-> "Ok", calls |-> calls ]

\* Painter::update_or_create_texture on the cache t: the cache afterwards,
\* the result kind and the renderer calls issued.
update_or_create_texture(t, id, delta, outcome) ==
    LET x == IF delta.pos = <<>> THEN 0 ELSE delta.pos[1]
        y == IF delta.pos = <<>> THEN 0 ELSE delta.pos[2]
        width == delta.image.w
        height == delta.image.h
        vacant == id \notin DOMAIN t
    IN  IF vacant /\ outcome = "create_fails"
        THEN [textures |-> t, err |-> "CreateTexture", calls |-> <<"compose", "create">>]
        ELSE IF vacant /\ outcome = "blend_fails"
        THEN [textures |-> t, err |-> "BlendModeNotSupported",
              calls |-> <<"compose", "create", "blend">>]
        ELSE
            LET t1 == IF vacant THEN Insert(t, id, NewTexture(t, width, height)) ELSE t
                calls == IF vacant
                         THEN <<"compose", "create", "blend", "update">>
                         ELSE <<"compose", "update">>
                rect == [x |-> x, y |-> y, w |-> width, h |-> height]
            IN  IF outcome = "update_fails"
                THEN [textures |-> t1, err |-> "UpdateTexture", calls |-> calls]
                ELSE [ textures |->
                         [t1 EXCEPT ![id] =
                             TextureUpdate(t1[id], rect, delta.image.pixels, delta.image.w)],
                       err |-> "Ok", calls |-> calls ]

\* free_texture looking the id up without removing it.
free_texture_keeps(t, id) ==
    [ textures |-> t, found |-> id \in DOMAIN t ]

\* free_texture passing over an id that is not cached.
free_texture_ignores_missing(t, id) ==
    [ textures |-> [k \in DOMAIN t \ {id} |-> t[k]], found |-> TRUE ]

\* Painter::free_texture: HashMap::remove(&id).is_some().
free_texture(t, id) ==
    [ textures |-> [k \in DOMAIN t \ {id} |-> t[k]], found |-> id \in DOMAIN t ]

\* The order of the three loops of paint_and_update_textures.
FirstPhase == "set"

\* The free loop placed before the primitive loop.
NextPhaseFreesFirst(p) ==
    CASE p = "set" -> "free"
      [] p = "free" -> "prims"
      [] p = "prims" -> "end"

NextPhase(p) ==
    CASE p = "set" -> "prims"
      [] p = "prims" -> "free"
      [] p = "free" -> "end"

\* The list a loop runs over.
PhaseList(f, p) ==
    CASE p = "set" -> f.set
      [] p = "prims" -> f.prims
      [] p = "free" -> f.free
      [] OTHER -> <<>>

\* Where control is when the loop p of the call with arguments f is about to
\* take its n-th entry: there, or, when the list has no n-th entry, at the
\* first entry of the loops that follow, or at the final `Ok(())`.
RECURSIVE Position(_, _, _)
Position(f, p, n) ==
    IF p = "end" \/ n <= Len(PhaseList(f, p))
    THEN [phase |-> p, i |-> n]
    ELSE Position(f, NextPhase(p), 1)

\* The primitive list walked from its end.
PrimAtReversed(prims, n) ==
    [k |-> Len(prims) - n + 1, p |-> prims[Len(prims) - n + 1]]

\* `for p in clipped_primitives`: the n-th iteration's primitive and its
\* position in the list.
PrimAt(prims, n) == [k |-> n, p |-> prims[n]]

\* The mesh arm setting the clip rectangle before it looks the texture up.
MeshArmClipFirst(t, clip, k, p, draw_ok) ==
    LET scissor == ScissorRect(p.clip_rect)
    IN  IF p.texture_id \notin DOMAIN t
        THEN [ clip |-> scissor, events |-> <<Event("clip", k, TRUE, scissor)>>,
               err |-> "PaintInvalidTexture" ]
        ELSE [ clip |-> scissor,
               events |-> << Event("clip", k, TRUE, scissor),
                             Event("draw", k, draw_ok, scissor) >>,
               err |-> IF draw_ok THEN "Ok" ELSE "SdlError" ]

\* The Primitive::Mesh arm for the primitive p at position k: the canvas's clip
\* rectangle afterwards, the calls issued and the result kind.
MeshArm(t, clip, k, p, draw_ok) ==
    IF p.texture_id \notin DOMAIN t
    THEN [clip |-> clip, events |-> <<>>, err |-> "PaintInvalidTexture"]
    ELSE
        LET scissor == ScissorRect(p.clip_rect)
        IN  [ clip |-> scissor,
              events |-> << Event("clip", k, TRUE, scissor),
                            Event("draw", k, draw_ok, scissor) >>,
              err |-> IF draw_ok THEN "Ok" ELSE "SdlError" ]

\* The callback arm failing the call on a payload that is no CallbackFn.
CallbackArmRejectsForeign(clip, k, p) ==
    IF p.payload = "CallbackFn"
    THEN [clip |-> clip, events |-> <<Event("invoke", k, TRUE, clip)>>, err |-> "Ok"]
    ELSE [clip |-> clip, events |-> <<>>, err |-> "SdlError"]

\* The Primitive::Callback arm: a CallbackFn is invoked, any other payload
\* is passed over.
CallbackArm(clip, k, p) ==
    IF p.payload = "CallbackFn"
    THEN [clip |-> clip, events |-> <<Event("invoke", k, TRUE, clip)>>, err |-> "Ok"]
    ELSE [clip |-> clip, events |-> <<>>, err |-> "Ok"]

----------------------------------------------------------------------------
(* Actions *)

Init ==
    /\ textures = <<>>
    /\ canvasClip = NoClipRect
    /\ pc = "idle"
    /\ phase = FirstPhase
    /\ i = 1
    /\ frame = NoFrame
    /\ result = Pending
    /\ log = <<>>
    /\ pre = <<>>
    /\ blend = NoBlend

\* Control moves to the position pos: into a loop, or to the final `Ok(())`.
Goto(pos) ==
    /\ phase' = pos.phase
    /\ i' = pos.i
    /\ IF pos.phase = "end"
       THEN pc' = "returned" /\ result' = Ok
       ELSE pc' = "running" /\ result' = Pending

\* The entry of paint_and_update_textures with the arguments f; the canvas
\* comes as the last call left it.
Begin(f) ==
    /\ frame' = f
    /\ Goto(Position(f, FirstPhase, 1))
    /\ log' = <<>>
    /\ pre' = textures
    /\ UNCHANGED <<textures, canvasClip, blend>>

BeginPaint == pc = "idle" /\ \E f \in Frames : Begin(f)

BeginPaintTex == pc = "idle" /\ \E f \in TexFrames : Begin(f)

\* A step whose error is dropped: control goes on to the next entry.
ContinueIgnoresErrors(err, id) ==
    Goto(Position(frame, phase, i + 1))

\* A step that ends with the result kind err: `?` returns the error, or
\* control goes on to the next entry.
Continue(err, id) ==
    IF err = "Ok"
    THEN Goto(Position(frame, phase, i + 1))
    ELSE /\ pc' = "returned"
         /\ result' = Err(err, id)
         /\ UNCHANGED <<phase, i>>

\* One iteration of `for (id, delta) in &textures_delta.set`.
SetStep ==
    /\ pc = "running" /\ phase = "set" /\ i <= Len(frame.set)
    /\ LET e == frame.set[i]
       IN  \E outcome \in Outcomes(textures, e.id) :
             LET r == update_or_create_texture(textures, e.id, e.delta, outcome)
                 n == Len(r.calls)
             IN  /\ textures' = r.textures
                 /\ log' = log \o [j \in 1..n |->
                              Event(r.calls[j], i, j < n \/ r.err = "Ok", canvasClip)]
                 /\ Continue(r.err, 0)
    /\ UNCHANGED <<canvasClip, frame, pre, blend>>

\* One iteration of `for p in clipped_primitives` on a mesh.
PaintMesh ==
    /\ pc = "running" /\ phase = "prims" /\ i <= Len(frame.prims)
    /\ LET cur == PrimAt(frame.prims, i)
       IN  /\ cur.p.kind = "mesh"
           /\ \E draw_ok \in BOOLEAN :
                LET r == MeshArm(textures, canvasClip, cur.k, cur.p, draw_ok)
                IN  /\ canvasClip' = r.clip
                    /\ log' = log \o r.events
                    /\ Continue(r.err, IF r.err = "PaintInvalidTexture"
                                       THEN cur.p.texture_id ELSE 0)
    /\ UNCHANGED <<textures, frame, pre, blend>>

\* One iteration of `for p in clipped_primitives` on a callback.
PaintCallback ==
    /\ pc = "running" /\ phase = "prims" /\ i <= Len(frame.prims)
    /\ LET cur == PrimAt(frame.prims, i)
       IN  /\ cur.p.kind = "callback"
           /\ LET r == CallbackArm(canvasClip, cur.k, cur.p)
              IN  /\ canvasClip' = r.clip
                  /\ log' = log \o r.events
                  /\ Continue(r.err, 0)
    /\ UNCHANGED <<textures, frame, pre, blend>>

\* One iteration of `for &id in &textures_delta.free`.
FreeStep ==
    /\ pc = "running" /\ phase = "free" /\ i <= Len(frame.free)
    /\ LET id == frame.free[i]
           r == free_texture(textures, id)
       IN  /\ textures' = r.textures
           /\ log' = Append(log, Event("remove", i, r.found, canvasClip))
           /\ Continue(IF r.found THEN "Ok" ELSE "FreeInvalidTexture", id)
    /\ UNCHANGED <<canvasClip, frame, pre, blend>>

\* The caller has the result; the painter and the canvas stay as they are.
Return ==
    /\ pc = "returned"
    /\ pc' = "idle"
    /\ phase' = FirstPhase
    /\ i' = 1
    /\ frame' = NoFrame
    /\ result' = Pending
    /\ log' = <<>>
    /\ pre' = <<>>
    /\ UNCHANGED <<textures, canvasClip, blend>>

Next ==
    \/ BeginPaint
    \/ SetStep
    \/ PaintMesh
    \/ PaintCallback
    \/ FreeStep
    \/ Return

Spec == Init /\ [][Next]_vars

\* Paint calls that only change textures: the frames of TexFrames.
NextTex ==
    \/ BeginPaintTex
    \/ SetStep
    \/ FreeStep
    \/ Return

SpecTex == Init /\ [][NextTex]_vars

\* The blending alone: a source pixel, as a mesh's textured triangle yields
\* it, meets a target pixel.
InitBlend ==
    /\ textures = <<>>
    /\ canvasClip = NoClipRect
    /\ pc = "idle"
    /\ phase = FirstPhase
    /\ i = 1
    /\ frame = NoFrame
    /\ result = Pending
    /\ log = <<>>
    /\ pre = <<>>
    /\ \E src \in Pixels, dst \in Pixels :
          blend = [src |-> src, dst |-> dst, out |-> <<>>]

\* The renderer blends the source pixel into the target with the mode the
\* painter's textures carry.
BlendPixel ==
    /\ blend.src # <<>> /\ blend.out = <<>>
    /\ blend' = [blend EXCEPT !.out = Blend(blend_mode, blend.src, blend.dst)]
    /\ UNCHANGED <<textures, canvasClip, pc, phase, i, frame, result, log, pre>>

NextBlend == BlendPixel

SpecBlend == InitBlend /\ [][NextBlend]_vars

----------------------------------------------------------------------------
(* Properties *)

IsPaintEvent(e) == e.op \in {"draw", "invoke"}

IsCanvasEvent(e) == e.op \in {"clip", "draw", "invoke"}

\* The primitive is one the painter draws or invokes.
Paintable(p) == p.kind = "mesh" \/ p.payload = "CallbackFn"

Foreign(p) == p.kind = "callback" /\ p.payload # "CallbackFn"

Returned(kind) == pc = "returned" /\ result.kind = kind

\* The primitive at position k has been passed by the primitive loop.
Passed(k) ==
    /\ pc # "idle"
    /\ k \in 1..Len(frame.prims)
    /\ \/ phase \in {"free", "end"}
       \/ phase = "prims" /\ k < i

\* C1: in every paint call, every set entry of the texture delta has been
\* applied to the cache before the first primitive is drawn or invoked, and
\* no free entry is applied until the last primitive has been drawn or invoked.
C1_SetBeforePrimitivesFreeAfter ==
    \A b \in DOMAIN log :
        /\ IsPaintEvent(log[b]) =>
              /\ \A j \in 1..Len(frame.set) :
                    \E a \in 1..(b - 1) :
                        log[a].op = "update" /\ log[a].at = j /\ log[a].ok
              /\ \A a \in 1..(b - 1) : log[a].op # "remove"
        /\ log[b].op = "remove" =>
              \A k \in 1..Len(frame.prims) :
                  Paintable(frame.prims[k]) =>
                      \E a \in 1..(b - 1) :
                          IsPaintEvent(log[a]) /\ log[a].at = k /\ log[a].ok

\* A call that applied a set entry, drew a mesh and then removed a texture.
C1_Witness ==
    /\ Returned("Ok")
    /\ frame.set # <<>>
    /\ \E a, b \in DOMAIN log : log[a].op = "draw" /\ log[b].op = "remove" /\ log[b].ok

\* The texture id T is named by the frame's free list and is cached when the
\* call begins or named by one of the frame's set entries.
FreedAndAvailable(T) ==
    /\ \E m \in DOMAIN frame.free : frame.free[m] = T
    /\ \/ T \in DOMAIN pre
       \/ \E j \in DOMAIN frame.set : frame.set[j].id = T

\* C2: in a frame whose meshes reference a texture id T that is cached (or
\* created by the frame's set entries) and whose free list names T, no such
\* mesh fails to resolve T, T is in the cache at each of those draws, and
\* once the call has returned Ok every such mesh has been drawn and T is
\* absent from the cache.
C2_FreedTextureDrawnThenAbsent ==
    \A T \in TextureIds :
        (pc # "idle" /\ FreedAndAvailable(T)) =>
            /\ result # Err("PaintInvalidTexture", T)
            /\ \A b \in DOMAIN log :
                  ( /\ log[b].op = "draw"
                    /\ frame.prims[log[b].at].texture_id = T
                    /\ b = Len(log) ) => T \in DOMAIN textures
            /\ Returned("Ok") =>
                  /\ T \notin DOMAIN textures
                  /\ \A k \in DOMAIN frame.prims :
                        (frame.prims[k].kind = "mesh" /\ frame.prims[k].texture_id = T) =>
                            \E b \in DOMAIN log :
                                log[b].op = "draw" /\ log[b].at = k /\ log[b].ok

\* A call that drew two meshes with a texture it then freed.
C2_Witness ==
    /\ Returned("Ok")
    /\ \E T \in TextureIds :
          /\ FreedAndAvailable(T)
          /\ \E k1, k2 \in DOMAIN frame.prims :
                /\ k1 < k2
                /\ frame.prims[k1].kind = "mesh" /\ frame.prims[k1].texture_id = T
                /\ frame.prims[k2].kind = "mesh" /\ frame.prims[k2].texture_id = T

\* C3: the draw calls and callback invocations of one paint call follow the
\* primitive list in list order: primitive k is drawn or invoked only after
\* every paintable primitive before it has been, a mesh by a draw and a
\* callback by an invocation, none twice and none out of place.
C3_PrimitivesInListOrder ==
    LET ev == SelectSeq(log, IsPaintEvent)
    IN  /\ \A a \in DOMAIN ev :
              /\ ev[a].at \in DOMAIN frame.prims
              /\ Paintable(frame.prims[ev[a].at])
              /\ (ev[a].op = "draw") = (frame.prims[ev[a].at].kind = "mesh")
              /\ \A k \in 1..(ev[a].at - 1) :
                    Paintable(frame.prims[k]) =>
                        \E c \in 1..(a - 1) : ev[c].at = k
        /\ \A a, b \in DOMAIN ev : a < b => ev[a].at < ev[b].at
        /\ \A k \in DOMAIN frame.prims :
              (Passed(k) /\ Paintable(frame.prims[k])) =>
                  \E a \in DOMAIN ev : ev[a].at = k

\* A call that drew a mesh and invoked a callback, three primitives in all.
C3_Witness ==
    /\ Returned("Ok")
    /\ Len(frame.prims) = 3
    /\ \E a, b \in DOMAIN log : log[a].op = "draw" /\ log[b].op = "invoke"

\* C4: a mesh at position k whose texture id is absent from the cache makes
\* the call return PaintInvalidTexture(id): the primitives before k have been
\* drawn or invoked, no scissor change, draw or invocation is issued for k or
\* any later primitive, and no mesh with an absent texture is ever passed.
C4_UnknownTextureStopsThePaint ==
    /\ Returned("PaintInvalidTexture") =>
          /\ phase = "prims"
          /\ i \in DOMAIN frame.prims
          /\ frame.prims[i].kind = "mesh"
          /\ frame.prims[i].texture_id = result.id
          /\ result.id \notin DOMAIN textures
          /\ \A b \in DOMAIN log : IsCanvasEvent(log[b]) => log[b].at < i
          /\ \A k \in 1..(i - 1) :
                Paintable(frame.prims[k]) =>
                    \E b \in DOMAIN log : IsPaintEvent(log[b]) /\ log[b].at = k /\ log[b].ok
    /\ \A k \in DOMAIN frame.prims :
          (Passed(k) /\ frame.prims[k].kind = "mesh") =>
              \E b \in DOMAIN log : log[b].op = "draw" /\ log[b].at = k /\ log[b].ok

\* The second of three primitives failed on its texture after the first was
\* drawn or invoked.
C4_Witness ==
    /\ Returned("PaintInvalidTexture")
    /\ i = 2
    /\ Len(frame.prims) = 3
    /\ \E b \in DOMAIN log : IsPaintEvent(log[b]) /\ log[b].at = 1

\* C5: every primitive, mesh or callback, is drawn or invoked with the
\* canvas's clip rectangle set from that primitive's own clip rect.
C5_ScissorIsThePrimitivesOwn ==
    \A b \in DOMAIN log :
        IsPaintEvent(log[b]) =>
            log[b].clip = ScissorRect(frame.prims[log[b].at].clip_rect)

\* C6: a free entry naming an id that is not in the cache when the entry is
\* processed makes the call return FreeInvalidTexture(id), for the first such
\* entry of the free list, and that failed removal leaves the cache as it was.
C6_FreeOfUnknownTextureFails ==
    [][ ( /\ pc = "running" /\ phase = "free"
          /\ frame.free[i] \notin DOMAIN textures )
        => ( /\ pc' = "returned"
             /\ result' = Err("FreeInvalidTexture", frame.free[i])
             /\ phase' = "free" /\ i' = i
             /\ textures' = textures ) ]_vars

\* The second free entry failed after the first removed a texture, with a
\* texture left in the cache.
C6_Witness ==
    /\ Returned("FreeInvalidTexture")
    /\ i = 2
    /\ DOMAIN textures # {}
    /\ DOMAIN textures # DOMAIN pre

\* C7 as claimed: a paint call that fails with PaintInvalidTexture leaves the
\* cache with the ids, textures and contents it had before the call.
C7_CacheAsBeforeTheCall ==
    Returned("PaintInvalidTexture") => textures = pre

\* The cache t with the set entries s[n], s[n+1], ... applied in order, each
\* succeeding.
RECURSIVE SetsApplied(_, _, _)
SetsApplied(t, s, n) ==
    IF n > Len(s)
    THEN t
    ELSE SetsApplied(update_or_create_texture(t, s[n].id, s[n].delta, "ok").textures,
                     s, n + 1)

\* C7 as amended: a paint call that fails with PaintInvalidTexture has changed
\* the cache by its set entries alone: the cache after the failed call is the
\* cache before the call with every set entry of the frame applied, nothing
\* removed and nothing else altered.
C7_CacheAsAfterTheSetEntries ==
    Returned("PaintInvalidTexture") => textures = SetsApplied(pre, frame.set, 1)

\* A call that created a texture and then failed on a mesh, with a free entry
\* still to come.
C7_Witness ==
    /\ Returned("PaintInvalidTexture")
    /\ frame.set # <<>>
    /\ frame.free # <<>>
    /\ textures # pre

\* C8: when update_or_create_texture fails for an id that was not in the
\* cache before it was called (the allocation, the blend mode or the upload
\* failed), the cache holds no entry for that id afterwards.
C8_NoEntryAfterFailedCreate ==
    ( /\ pc = "returned" /\ phase = "set"
      /\ result.kind \in {"CreateTexture", "BlendModeNotSupported", "UpdateTexture"}
      /\ frame.set[i].id \notin DOMAIN pre
      /\ \A j \in 1..(i - 1) : frame.set[j].id # frame.set[i].id )
    => frame.set[i].id \notin DOMAIN textures

\* C9: the texture cached under an id has the width and height of the image
\* of the set delta that created it, and as long as the id stays cached no
\* set delta changes that size or replaces the texture object.
C9_SizeFixedAtCreation ==
    [][ \A id \in TextureIds :
          /\ (id \notin DOMAIN textures /\ id \in DOMAIN textures') =>
                /\ pc = "running" /\ phase = "set" /\ frame.set[i].id = id
                /\ textures'[id].w = frame.set[i].delta.image.w
                /\ textures'[id].h = frame.set[i].delta.image.h
          /\ (id \in DOMAIN textures /\ id \in DOMAIN textures') =>
                /\ textures'[id].w = textures[id].w
                /\ textures'[id].h = textures[id].h
                /\ textures'[id].obj = textures[id].obj ]_vars

\* A set delta of another width than the cached texture has been applied to it.
C9_Witness ==
    /\ Returned("Ok")
    /\ Len(frame.set) = 1
    /\ frame.set[1].id \in DOMAIN pre
    /\ frame.set[1].id \in DOMAIN textures
    /\ frame.set[1].delta.image.w # textures[frame.set[1].id].w
    /\ textures[frame.set[1].id] # pre[frame.set[1].id]

\* C10: a callback primitive whose payload is no CallbackFn is passed over:
\* nothing is invoked, nothing is drawn, the cache and the canvas stay as they
\* are, no error is returned, and the call goes on with the next primitive or,
\* after the last, with the free list or the final Ok.
C10_ForeignCallbackIsSkipped ==
    [][ ( /\ pc = "running" /\ phase = "prims"
          /\ Foreign(frame.prims[i]) )
        => ( /\ log' = log
             /\ textures' = textures
             /\ canvasClip' = canvasClip
             /\ IF i < Len(frame.prims)
                THEN pc' = "running" /\ phase' = "prims" /\ i' = i + 1
                ELSE IF frame.free # <<>>
                THEN pc' = "running" /\ phase' = "free" /\ i' = 1
                ELSE pc' = "returned" /\ result' = Ok ) ]_vars

\* After a callback of another backend was passed over, a later primitive was
\* drawn or invoked and a texture was freed.
C10_Witness ==
    /\ Returned("Ok")
    /\ \E k \in DOMAIN frame.prims :
          /\ Foreign(frame.prims[k])
          /\ \E b \in DOMAIN log : IsPaintEvent(log[b]) /\ log[b].at > k
    /\ \E b \in DOMAIN log : log[b].op = "remove" /\ log[b].ok

\* The error a failed call of the log stands for.
ErrorOf(op) ==
    CASE op = "create" -> "CreateTexture"
      [] op = "blend" -> "BlendModeNotSupported"
      [] op = "update" -> "UpdateTexture"
      [] op = "draw" -> "SdlError"
      [] op = "remove" -> "FreeInvalidTexture"
      [] OTHER -> "none"

\* C11: a paint call returns at most one error, the first it meets in the
\* order set entries, primitives, free entries: a failed call is the last
\* entry of the log, the call has returned its error, and every call issued
\* before it succeeded; a call that returned Ok issued no failed call.
C11_FirstErrorEndsTheCall ==
    /\ \A b \in DOMAIN log :
          ~log[b].ok =>
              /\ b = Len(log)
              /\ pc = "returned"
              /\ result.kind = ErrorOf(log[b].op)
    /\ (pc = "returned" /\ result.kind \notin {"Ok", "PaintInvalidTexture"}) =>
          /\ log # <<>>
          /\ ~log[Len(log)].ok
    /\ pc = "running" => result = Pending

\* A call that applied a set entry and drew a mesh before a free entry failed.
C11_Witness ==
    /\ Returned("FreeInvalidTexture")
    /\ \E a, b \in DOMAIN log :
          /\ log[a].op = "update" /\ log[a].ok
          /\ log[b].op = "draw" /\ log[b].ok
          /\ a < b

\* C13: the composed blend mode leaves in the target, for every source and
\* target pixel, dst.rgb = src.rgb * 1 + dst.rgb * (1 - src.a) and
\* dst.a = src.a * 1 + dst.a * (1 - src.a) (numerators over MaxChan * MaxChan).
C13_BlendIsPremultipliedOver ==
    blend.out # <<>> =>
        /\ blend.out.c = blend.src.c * MaxChan + blend.dst.c * (MaxChan - blend.src.a)
        /\ blend.out.a = blend.src.a * MaxChan + blend.dst.a * (MaxChan - blend.src.a)

\* A half-transparent source blended into a half-transparent target whose
\* colour shows through.
C13_Witness ==
    /\ blend.out # <<>>
    /\ blend.src.a \in 1..(MaxChan - 1)
    /\ blend.src.c \in 1..blend.src.a
    /\ blend.dst.a \in 1..(MaxChan - 1)
    /\ blend.dst.c \in 1..blend.dst.a
    /\ blend.out.c > blend.src.c * MaxChan

\* The log entries that are SDL_ComposeCustomBlendMode calls.
Composes == {b \in DOMAIN log : log[b].op = "compose"}

SetStepOk ==
    /\ pc = "running" /\ phase = "set"
    /\ log'[Len(log')].ok

FreeStepOk ==
    /\ pc = "running" /\ phase = "free"
    /\ log'[Len(log')].ok

\* The texel c lies in the rectangle (offset, width, height) of the delta.
InDeltaRect(delta, c) ==
    LET x == IF delta.pos = <<>> THEN 0 ELSE delta.pos[1]
        y == IF delta.pos = <<>> THEN 0 ELSE delta.pos[2]
    IN  /\ c[1] >= x /\ c[1] < x + delta.image.w
        /\ c[2] >= y /\ c[2] < y + delta.image.h

\* The pixel of the delta's image that belongs at the texel c.
DeltaPixel(delta, c) ==
    LET x == IF delta.pos = <<>> THEN 0 ELSE delta.pos[1]
        y == IF delta.pos = <<>> THEN 0 ELSE delta.pos[2]
    IN  delta.image.pixels[(c[2] - y) * delta.image.w + (c[1] - x) + 1]

\* C12: over any sequence of set and free deltas, a freed id is absent from
\* the cache until a set entry names it again, and a set entry applied to an
\* id leaves it cached with each texel inside the delta's rectangle (offset,
\* delta width, delta height) holding the delta's pixel for it and every
\* other texel as it was before; nothing else changes a cached texture.
C12_FreedAbsentSetOverlaid ==
    [][ /\ FreeStepOk => frame.free[i] \notin DOMAIN textures'
        /\ SetStepOk =>
              LET id == frame.set[i].id
                  delta == frame.set[i].delta
              IN  /\ id \in DOMAIN textures'
                  /\ \A c \in DOMAIN textures'[id].px :
                        textures'[id].px[c] =
                            IF InDeltaRect(delta, c) THEN DeltaPixel(delta, c)
                            ELSE IF id \in DOMAIN textures THEN textures[id].px[c]
                            ELSE Unwritten
                  /\ id \in DOMAIN textures =>
                        DOMAIN textures'[id].px = DOMAIN textures[id].px
        /\ \A id \in TextureIds :
              /\ (id \notin DOMAIN textures /\ id \in DOMAIN textures') =>
                    pc = "running" /\ phase = "set" /\ frame.set[i].id = id
              /\ (id \in DOMAIN textures /\ id \in DOMAIN textures'
                    /\ textures'[id] # textures[id]) =>
                    SetStepOk /\ frame.set[i].id = id ]_vars

\* A partial update at an offset has overwritten the second texel of a cached
\* texture and left the first as the earlier delta wrote it.
C12_Witness ==
    /\ Returned("Ok")
    /\ Len(frame.set) = 1
    /\ frame.set[1].delta.pos = <<1, 0>>
    /\ 1 \in DOMAIN pre /\ 1 \in DOMAIN textures
    /\ pre[1].w = 2
    /\ pre[1].px[<<0, 0>>] = pre[1].px[<<1, 0>>]
    /\ textures[1].px[<<0, 0>>] = pre[1].px[<<0, 0>>]
    /\ textures[1].px[<<1, 0>>] # pre[1].px[<<1, 0>>]
    /\ textures[1].px[<<1, 0>>] # Unwritten

\* The operations of the calls the step has added to the log.
NewOps == [b \in 1..(Len(log') - Len(log)) |-> log'[Len(log) + b].op]

\* C15: update_or_create_texture asks the renderer to create a texture if
\* and only if the id is not cached when it is called, and then once; for a
\* cached id it only uploads the delta into the texture object already
\* cached; no two cached ids hold the same texture object.
C15_CreatesOnlyForAbsentId ==
    [][ (pc = "running" /\ phase = "set") =>
          LET id == frame.set[i].id
              creates == {b \in DOMAIN NewOps : NewOps[b] = "create"}
          IN  /\ Cardinality(creates) = IF id \in DOMAIN textures THEN 0 ELSE 1
              /\ id \in DOMAIN textures =>
                    /\ NewOps = <<"compose", "update">>
                    /\ id \in DOMAIN textures'
                    /\ textures'[id].obj = textures[id].obj
              /\ \A a, b \in DOMAIN textures' :
                    a # b => textures'[a].obj # textures'[b].obj ]_vars

\* A set entry for a cached id has been applied while another id is cached
\* too.
C15_Witness ==
    /\ Returned("Ok")
    /\ Len(frame.set) = 1
    /\ frame.set[1].id \in DOMAIN pre
    /\ Cardinality(DOMAIN textures) = 2
    /\ \E b \in DOMAIN log : log[b].op = "update" /\ log[b].ok
    /\ \A b \in DOMAIN log : log[b].op # "create"

\* C16: a set entry for an id that is not cached creates a texture of the
\* delta image's width and height and writes the whole of it, whatever the
\* delta's offset: no texel of the new texture is left unwritten and the
\* written rectangle lies inside the texture.
C16_NewTextureWrittenWhole ==
    ( /\ Returned("Ok")
      /\ Len(frame.set) = 1
      /\ frame.set[1].id \notin DOMAIN pre
      /\ frame.free = <<>> )
    => LET id == frame.set[1].id
           delta == frame.set[1].delta
       IN  /\ textures[id].w = delta.image.w
           /\ textures[id].h = delta.image.h
           /\ \A c \in DOMAIN textures[id].px : textures[id].px[c] # Unwritten
           /\ \A c \in (0..MaxW) \X (0..MaxH) :
                 InDeltaRect(delta, c) => c \in DOMAIN textures[id].px

\* The ids named by the frame's set entries, and by its free entries.
SetIds == {frame.set[j].id : j \in DOMAIN frame.set}

FreeIds == {frame.free[m] : m \in DOMAIN frame.free}

\* C17: when a paint call has returned Ok the cached ids are the ids cached
\* before the call and the ids of the frame's set entries, without the ids
\* of its free entries; and over any sequence of paint calls an id comes
\* into the cache only by a set entry that names it.
C17_CachedIdsFollowTheDeltas ==
    /\ [](Returned("Ok") => DOMAIN textures = (DOMAIN pre \cup SetIds) \ FreeIds)
    /\ [](pc # "idle" => DOMAIN textures \subseteq DOMAIN pre \cup SetIds)
    /\ [][ \A id \in TextureIds :
             (id \notin DOMAIN textures /\ id \in DOMAIN textures') =>
                 /\ pc = "running" /\ phase = "set"
                 /\ frame.set[i].id = id ]_vars

\* A call that returned Ok after adding one id to a cache that held another
\* and freeing that other.
C17_Witness ==
    /\ Returned("Ok")
    /\ DOMAIN pre # {}
    /\ SetIds \ DOMAIN pre # {}
    /\ FreeIds = DOMAIN pre
    /\ DOMAIN textures = SetIds

\* Control is in the primitive loop, or has left the call from it.
InPrimitiveDispatch == pc # "idle" /\ phase = "prims"

\* C18 as stated: while the primitives are dispatched the cache holds all of
\* the frame's set ids and all ids of its free list.
C18_TableHoldsSetAndFreeIds ==
    InPrimitiveDispatch => SetIds \cup FreeIds \subseteq DOMAIN textures

\* C18, amended: no step of the primitive loop changes the cache, which all
\* through the loop is the cache from before the call with the frame's set
\* entries applied; it holds every set id and every id of the free list that
\* was cached before the call or is named by a set entry.  An id of the free
\* list that is neither is not in it.
C18_TableFixedDuringDispatch ==
    /\ [][ (pc = "running" /\ phase = "prims") =>
              /\ textures' = textures
              /\ pre' = pre ]_vars
    /\ [](InPrimitiveDispatch =>
              /\ textures = SetsApplied(pre, frame.set, 1)
              /\ SetIds \subseteq DOMAIN textures
              /\ \A T \in FreeIds :
                    T \in DOMAIN textures <=> FreedAndAvailable(T))

\* A mesh has been drawn from a table holding a texture the frame has set
\* and will free; the free loop is about to start.
C18_Witness ==
    /\ pc = "running" /\ phase = "free" /\ i = 1
    /\ SetIds # {}
    /\ FreeIds = SetIds
    /\ FreeIds \subseteq DOMAIN textures
    /\ textures = SetsApplied(pre, frame.set, 1)
    /\ \E b \in DOMAIN log : log[b].op = "draw" /\ log[b].ok

====
